---- MODULE Spec2Model ----
(***************************************************************************)
(* Employee salary / role mutation subsystem of hr_system                  *)
(* (src/employee/models.py): Employee.update_salary, Employee.update_role, *)
(* SalaryHistory and RoleHistory with their full_clean() validation.       *)
(*                                                                         *)
(* The store runs in autocommit: neither method opens a transaction, so    *)
(* every Model.save() is its own committed step and two requests can       *)
(* interleave between the history insert and the employee update.          *)
(* Salaries are integers (a scaled Decimal), dates are day numbers.        *)
(***************************************************************************)
EXTENDS Integers, Sequences, FiniteSets, TLC

\* ---------------------------------------------------------------- bounds
MaxHistory == 2        \* rows the salary_history table may hold

None == "None"
Actors == {"hr1", "hr2"}            \* the users issuing requests (changed_by)
Employees == {"e1"}                 \* primary keys of the employee table
Salaries == {0 - 1, 0, 1, 2}        \* requested salaries, one negative
Dates == {1, 2, 3}                  \* day 1 lies before the hire date
NoDate == 0                         \* effective_date=None, the parameter's default
Today == CHOOSE d \in Dates : \A x \in Dates : x <= d   \* date.today()
\* the effective_date arguments: an earlier day, or None for today
EffectiveDates == (Dates \ {Today}) \cup {NoDate}
ReasonsOf(a) == IF a = "hr1" THEN {"Annual raise"} ELSE {""}   \* the reason a user gives
Roles == {"Developer", "Senior Developer"}

\* the employee of the tests' setUp: Developer, JUNIOR, salary 1, hired on day 2
Fixture ==
    [current_salary |-> 1, role |-> "Developer", seniority_level |-> "JUNIOR",
     hire_date |-> 2]

\* src/core/constants.py: SENIORITY_LEVELS
SENIORITY_LEVELS == {"JUNIOR", "MID", "SENIOR"}

VARIABLES
    emp,             \* employee table: pk -> stored row
    salary_history,  \* salary_history table, in insertion (id / created_at) order
    role_history,    \* role_history table, in insertion order
    self,            \* per request: the in-memory Employee instance
    call,            \* per request: the running call, its arguments, the tables' sizes at its start
    history,         \* per request: the local `history` object of the running call
    pc,              \* per request: position inside update_salary / update_role
    commits,         \* history rows whose employee UPDATE committed, in commit order
    last,            \* the call that returned or raised in the last step, until its caller took it
    cache            \* django.core.cache.cache: key -> value, the keys that are set

vars == <<emp, salary_history, role_history, self, call, history, pc, commits, last,
          cache>>

NoHistory == [id |-> 0]
NoCall == [op |-> "none"]

\* ------------------------------------------------------------ SalaryHistory

\* SalaryHistory(employee=self, old_salary=self.current_salary, new_salary=...,
\* changed_by=..., change_reason=reason, effective_date=...); id is unset until save()
SalaryHistory_without_reason(obj, new_salary, changed_by, reason, effective_date) ==
    [id |-> 0, employee |-> obj.pk, old_salary |-> obj.current_salary,
     new_salary |-> new_salary, changed_by |-> changed_by,
     change_reason |-> "", effective_date |-> effective_date]

SalaryHistory(obj, new_salary, changed_by, reason, effective_date) ==
    [id |-> 0, employee |-> obj.pk, old_salary |-> obj.current_salary,
     new_salary |-> new_salary, changed_by |-> changed_by,
     change_reason |-> reason, effective_date |-> effective_date]

\* SalaryHistory.clean(): the first failing check raises, the later ones do not run
SalaryHistory_clean_no_date(h, obj) ==
    IF h.old_salary = h.new_salary THEN {"same_salary"}
    ELSE IF h.old_salary < 0 \/ h.new_salary < 0 THEN {"not_positive"}
    ELSE {}

SalaryHistory_clean_no_same(h, obj) ==
    IF h.employee /= None /\ h.effective_date < obj.hire_date
        THEN {"before_hire_date"}
    ELSE IF h.old_salary < 0 \/ h.new_salary < 0 THEN {"not_positive"}
    ELSE {}

SalaryHistory_clean_no_negative(h, obj) ==
    IF h.employee /= None /\ h.effective_date < obj.hire_date
        THEN {"before_hire_date"}
    ELSE IF h.old_salary = h.new_salary THEN {"same_salary"}
    ELSE {}

SalaryHistory_clean(h, obj) ==
    IF h.employee /= None /\ h.effective_date < obj.hire_date
        THEN {"before_hire_date"}
    ELSE IF h.old_salary = h.new_salary THEN {"same_salary"}
    ELSE IF h.old_salary < 0 \/ h.new_salary < 0 THEN {"not_positive"}
    ELSE {}

\* Model.clean_fields() on a SalaryHistory: changed_by is null=True but not
\* blank=True, so None is rejected; the other fields hold well-typed values here
SalaryHistory_clean_fields(h) ==
    IF h.changed_by = None THEN {"changed_by_blank"} ELSE {}

\* Model.full_clean(): clean_fields() and clean() both run, their errors are merged
SalaryHistory_full_clean(h, obj) ==
    SalaryHistory_clean_fields(h) \cup SalaryHistory_clean(h, obj)

\* -------------------------------------------------------------- RoleHistory

\* a CharField the constructor was not given: the field's default, ''
Blank == ""

\* RoleHistory(employee=self, old_role=self.role, new_role=new_role,
\* old_seniority=new_seniority, changed_by=..., change_reason=reason,
\* effective_date=...): the new_seniority argument is bound to old_seniority and
\* the record's new_seniority is never given, so it keeps the field default
RoleHistory(obj, new_role, new_seniority, changed_by, reason, effective_date) ==
    [id |-> 0, employee |-> obj.pk, old_role |-> obj.role, new_role |-> new_role,
     old_seniority |-> new_seniority, new_seniority |-> Blank,
     changed_by |-> changed_by, change_reason |-> reason,
     effective_date |-> effective_date]

\* RoleHistory.clean(): the first failing check raises
RoleHistory_clean(h, obj) ==
    IF h.employee /= None /\ h.effective_date < obj.hire_date
        THEN {"before_hire_date"}
    ELSE IF h.old_role = h.new_role /\ h.old_seniority = h.new_seniority
        THEN {"no_change"}
    ELSE {}

\* Model.clean_fields() on a RoleHistory: no field is blank=True, so None and ''
\* are rejected; a seniority must be one of the choices
RoleHistory_clean_fields_blank_allowed(h) ==
    IF h.changed_by = None THEN {"changed_by_blank"} ELSE {}

RoleHistory_clean_fields(h) ==
    (IF h.old_role = None THEN {"old_role_blank"} ELSE {})
    \cup (IF h.new_role = None THEN {"new_role_blank"} ELSE {})
    \cup (IF h.old_seniority = Blank THEN {"old_seniority_blank"}
          ELSE IF h.old_seniority \notin SENIORITY_LEVELS
              THEN {"old_seniority_invalid_choice"} ELSE {})
    \cup (IF h.new_seniority = Blank THEN {"new_seniority_blank"}
          ELSE IF h.new_seniority \notin SENIORITY_LEVELS
              THEN {"new_seniority_invalid_choice"} ELSE {})
    \cup (IF h.changed_by = None THEN {"changed_by_blank"} ELSE {})

\* Model.full_clean() on a RoleHistory
RoleHistory_full_clean_without_fields(h, obj) == RoleHistory_clean(h, obj)

RoleHistory_full_clean(h, obj) ==
    RoleHistory_clean_fields(h) \cup RoleHistory_clean(h, obj)

\* ----------------------------------------------------------------- saving

\* history.save(): INSERT, the row gets the next id
Insert_lost(table, h) == table

Insert_first(table, h) == <<[h EXCEPT !.id = Len(table) + 1]>> \o table

Insert(table, h) == Append(table, [h EXCEPT !.id = Len(table) + 1])

\* self.current_salary = new_salary (line 115; old_salary is the local of line 114)
SetSalary_to_old(obj, new_salary) == obj

SetSalary(obj, new_salary) == [obj EXCEPT !.current_salary = new_salary]

\* self.save(update_fields=[...]): UPDATE of the listed columns only
Employee_save_nothing(row, obj, update_fields) == row

Employee_save_all(row, obj, update_fields) == [f \in DOMAIN row |-> obj[f]]

Employee_save(row, obj, update_fields) ==
    [f \in DOMAIN row |-> IF f \in update_fields THEN obj[f] ELSE row[f]]

\* Employee.objects.get(pk=...) / refresh_from_db(): a fresh in-memory instance
Instance(pk) == [pk |-> pk] @@ emp[pk]

\* ------------------------------------------------------------------- Init

Init ==
    /\ emp = [e \in Employees |-> Fixture]
    /\ salary_history = <<>>
    /\ role_history = <<>>
    /\ self = [a \in Actors |-> [pk |-> "e1"] @@ Fixture]
    /\ call = [a \in Actors |-> NoCall]
    /\ history = [a \in Actors |-> NoHistory]
    /\ pc = [a \in Actors |-> "idle"]
    /\ commits = <<>>
    /\ last = NoCall
    /\ cache = [key \in {} |-> None]

\* the arguments of a call and the sizes of the two history tables when it starts
Arguments(op, value, changed_by, reason, effective_date) ==
    [op |-> op, value |-> value, changed_by |-> changed_by, reason |-> reason,
     effective_date |-> effective_date,
     salary_rows |-> Len(salary_history), role_rows |-> Len(role_history)]

\* what a call that returned or raised leaves for its caller: the call, how it
\* ended, the instance and the stored row as they were before this step
Result(a, c, outcome, errors, h) ==
    [op |-> c.op, actor |-> a, call |-> c, outcome |-> outcome, errors |-> errors,
     before |-> self[a], stored |-> emp[self[a].pk], history |-> h]

\* rows still to be inserted by calls that passed validation
Pending == Cardinality({a \in Actors : pc[a] = "salary_save_history"})

PendingRole == Cardinality({a \in Actors : pc[a] = "role_save_history"})

\* ---------------------------------------------------------------- actions
\* A request takes no step while the result of the call that just ended is still
\* with its caller (last /= NoCall); handle_result is the only step there.

\* get_object_or_404(Employee, pk) in the views' dispatch / refresh_from_db()
refresh_from_db(a, e) ==
    /\ last = NoCall
    /\ pc[a] = "idle"
    /\ self[a] /= Instance(e)
    /\ self' = [self EXCEPT ![a] = Instance(e)]
    /\ UNCHANGED <<emp, salary_history, role_history, call, history, pc, commits, last,
                   cache>>

\* update_salary, lines 92-108: default date, build the record, full_clean()
update_salary(a, new_salary, changed_by, reason, effective_date) ==
    /\ last = NoCall
    /\ pc[a] = "idle"
    /\ Len(salary_history) + Pending < MaxHistory
    /\ LET c == Arguments("update_salary", new_salary, changed_by, reason,
                          effective_date)
           date == IF effective_date = NoDate THEN Today ELSE effective_date
           h == SalaryHistory(self[a], new_salary, changed_by, reason, date)
           errors == SalaryHistory_full_clean(h, self[a])
       IN  IF errors = {}
           THEN /\ call' = [call EXCEPT ![a] = c]
                /\ history' = [history EXCEPT ![a] = h]
                /\ pc' = [pc EXCEPT ![a] = "salary_save_history"]
                /\ UNCHANGED last
           ELSE /\ last' = Result(a, c, "ValidationError", errors, h)
                /\ UNCHANGED <<call, history, pc>>
    /\ UNCHANGED <<emp, salary_history, role_history, self, commits, cache>>

\* update_salary, line 111: history.save()
salary_save_history(a) ==
    /\ last = NoCall
    /\ pc[a] = "salary_save_history"
    /\ salary_history' = Insert(salary_history, history[a])
    /\ history' = [history EXCEPT ![a].id = Len(salary_history')]
    /\ pc' = [pc EXCEPT ![a] = "salary_save_employee"]
    /\ UNCHANGED <<emp, role_history, self, call, commits, last, cache>>

\* update_salary, lines 113-123: set the field, save it, return the record
salary_save_employee(a) ==
    /\ last = NoCall
    /\ pc[a] = "salary_save_employee"
    /\ LET obj == SetSalary(self[a], call[a].value)
       IN  /\ self' = [self EXCEPT ![a] = obj]
           /\ emp' = [emp EXCEPT ![obj.pk] =
                        Employee_save(emp[obj.pk], obj, {"current_salary"})]
    /\ commits' = Append(commits, [table |-> "salary", id |-> history[a].id])
    /\ last' = Result(a, call[a], "ok", {}, history[a])
    /\ call' = [call EXCEPT ![a] = NoCall]
    /\ history' = [history EXCEPT ![a] = NoHistory]
    /\ pc' = [pc EXCEPT ![a] = "idle"]
    /\ UNCHANGED <<salary_history, role_history, cache>>

\* a save() raises django.db.DatabaseError: the statement has no effect and the
\* exception leaves the method; nothing undoes what the call saved before.
\* Before the employee UPDATE the new value is already set on the instance.
DatabaseError(a) ==
    /\ last = NoCall
    /\ pc[a] /= "idle"
    /\ self' = [self EXCEPT ![a] =
                  IF pc[a] = "salary_save_employee"
                      THEN SetSalary(self[a], call[a].value)
                  ELSE IF pc[a] = "role_save_employee"
                      THEN [self[a] EXCEPT !.role = history[a].new_role,
                                           !.seniority_level = history[a].new_seniority]
                  ELSE self[a]]
    /\ last' = Result(a, call[a], "DatabaseError", {}, history[a])
    /\ call' = [call EXCEPT ![a] = NoCall]
    /\ history' = [history EXCEPT ![a] = NoHistory]
    /\ pc' = [pc EXCEPT ![a] = "idle"]
    /\ UNCHANGED <<emp, salary_history, role_history, commits, cache>>

\* update_role, lines 158-181: defaults, build the record, full_clean()
update_role_validate(a, new_role, new_seniority, changed_by, reason, effective_date) ==
    LET c == Arguments("update_role",
                       [new_role |-> new_role, new_seniority |-> new_seniority],
                       changed_by, reason, effective_date)
        date == IF effective_date = NoDate THEN Today ELSE effective_date
        role == IF new_role = None THEN self[a].role ELSE new_role
        seniority == IF new_seniority = None THEN self[a].seniority_level
                     ELSE new_seniority
        h == RoleHistory(self[a], role, seniority, changed_by, reason, date)
        errors == RoleHistory_full_clean(h, self[a])
    IN  /\ IF errors = {}
           THEN /\ call' = [call EXCEPT ![a] = c]
                /\ history' = [history EXCEPT ![a] = h]
                /\ pc' = [pc EXCEPT ![a] = "role_save_history"]
                /\ UNCHANGED last
           ELSE /\ last' = Result(a, c, "ValidationError", errors, h)
                /\ UNCHANGED <<call, history, pc>>
        /\ UNCHANGED <<emp, salary_history, role_history, self, commits, cache>>

\* update_role, line 184: history.save()
update_role_save_history(a) ==
    /\ role_history' = Insert(role_history, history[a])
    /\ history' = [history EXCEPT ![a].id = Len(role_history')]
    /\ pc' = [pc EXCEPT ![a] = "role_save_employee"]
    /\ UNCHANGED <<emp, salary_history, self, call, commits, last, cache>>

\* update_role, lines 186-200: set both fields, save them, return the record
update_role_save_employee(a) ==
    /\ LET obj == [self[a] EXCEPT !.role = history[a].new_role,
                                  !.seniority_level = history[a].new_seniority]
       IN  /\ self' = [self EXCEPT ![a] = obj]
           /\ emp' = [emp EXCEPT ![obj.pk] =
                        Employee_save(emp[obj.pk], obj, {"role", "seniority_level"})]
    /\ commits' = Append(commits, [table |-> "role", id |-> history[a].id])
    /\ last' = Result(a, call[a], "ok", {}, history[a])
    /\ call' = [call EXCEPT ![a] = NoCall]
    /\ history' = [history EXCEPT ![a] = NoHistory]
    /\ pc' = [pc EXCEPT ![a] = "idle"]
    /\ UNCHANGED <<salary_history, role_history, cache>>

\* update_role: the start of a call of request a, or the next step of its call
update_role(a) ==
    IF last /= NoCall THEN FALSE
    ELSE IF pc[a] = "idle"
    THEN Len(role_history) + PendingRole < MaxHistory /\
         \E new_role \in Roles \cup {None}, new_seniority \in SENIORITY_LEVELS \cup {None},
            reason \in ReasonsOf(a), effective_date \in EffectiveDates :
            \E changed_by \in {a, None} :
                update_role_validate(a, new_role, new_seniority, changed_by, reason,
                                     effective_date)
    ELSE IF pc[a] = "role_save_history" THEN update_role_save_history(a)
    ELSE IF pc[a] = "role_save_employee" THEN update_role_save_employee(a)
    ELSE FALSE

\* the caller takes the returned record or the raised exception (the views'
\* form_valid: try / except around the call); nothing of it is kept
handle_result ==
    /\ last /= NoCall
    /\ last' = NoCall
    /\ UNCHANGED <<emp, salary_history, role_history, self, call, history, pc, commits,
                   cache>>

Next ==
    \/ \E a \in Actors, e \in Employees : refresh_from_db(a, e)
    \/ \E a \in Actors, s \in Salaries, d \in EffectiveDates :
          \E by \in {a, None}, r \in ReasonsOf(a) : update_salary(a, s, by, r, d)
    \/ \E a \in Actors : salary_save_history(a)
    \/ \E a \in Actors : salary_save_employee(a)
    \/ \E a \in Actors : update_role(a)
    \/ \E a \in Actors : DatabaseError(a)
    \/ handle_result

Spec == Init /\ [][Next]_vars

\* The same requests run one after another: a call starts only when no other
\* request is inside a call, as in the tests, where each call returns before
\* the next one is made.
NoOtherCall(a) == \A b \in Actors \ {a} : pc[b] = "idle"

NextSequential ==
    \/ \E a \in Actors, e \in Employees : refresh_from_db(a, e)
    \/ \E a \in Actors, s \in Salaries, d \in EffectiveDates :
          \E by \in {a, None}, r \in ReasonsOf(a) :
              NoOtherCall(a) /\ update_salary(a, s, by, r, d)
    \/ \E a \in Actors : salary_save_history(a)
    \/ \E a \in Actors : salary_save_employee(a)
    \/ \E a \in Actors : NoOtherCall(a) /\ update_role(a)
    \/ \E a \in Actors : DatabaseError(a)
    \/ handle_result

SpecSequential == Init /\ [][NextSequential]_vars

\* The requests next to another writer of the employee row: the admin site's
\* change form of Employee (EmployeeAdmin, a plain ModelAdmin) saves a role and
\* a seniority level, so that a request may hold a copy whose role is stale.
EmployeeAdmin_save_model(e, role, seniority_level) ==
    /\ last = NoCall
    /\ emp[e].role /= role \/ emp[e].seniority_level /= seniority_level
    /\ emp' = [emp EXCEPT ![e].role = role, ![e].seniority_level = seniority_level]
    /\ UNCHANGED <<salary_history, role_history, self, call, history, pc, commits, last,
                   cache>>

NextFrame ==
    \/ \E a \in Actors, e \in Employees : refresh_from_db(a, e)
    \/ \E a \in Actors : \E r \in ReasonsOf(a) :
          update_salary(a, Fixture.current_salary + 1, a, r, NoDate)
    \/ \E a \in Actors : salary_save_history(a)
    \/ \E a \in Actors : salary_save_employee(a)
    \/ \E a \in Actors : update_role(a)
    \/ \E a \in Actors : DatabaseError(a)
    \/ \E e \in Employees, role \in Roles, seniority_level \in {"JUNIOR", "MID"} :
          EmployeeAdmin_save_model(e, role, seniority_level)
    \/ handle_result

SpecFrame == Init /\ [][NextFrame]_vars

\* ------------------------------------------- derived values of RoleHistory
\* The properties of a history record and the figures over an employee's
\* history, read from records created directly with objects.create(...) as the
\* model tests do; MaxHistory bounds the records of the two tables together.

hr_user == "hr1"                    \* the user the tests record as changed_by

\* Role.department of the roles of the tests
Role_department(role) == IF role = "Marketing Manager" THEN "Marketing" ELSE "IT"

\* the roles a record is created with: old_role is the employee's role, or null
\* (on_delete=SET_NULL); new_role any role, or null
OldRoles == {Fixture.role, None}
NewRoles == Roles \cup {"Marketing Manager", None}

\* seniority_order.get(seniority, 0)
seniority_order(seniority) ==
    IF seniority = "JUNIOR" THEN 1
    ELSE IF seniority = "MID" THEN 2
    ELSE IF seniority = "SENIOR" THEN 3
    ELSE 0

\* RoleHistory.promotion_or_demotion: both branches return 'promotion'
promotion_or_demotion(h) ==
    LET old_level == seniority_order(h.old_seniority)
        new_level == seniority_order(h.new_seniority)
    IN  IF new_level > old_level THEN "promotion"
        ELSE IF old_level > new_level THEN "promotion"
        ELSE None

\* RoleHistory.is_lateral_move
is_lateral_move_role_only(h) == h.old_role /= h.new_role

is_lateral_move(h) == h.old_seniority = h.new_seniority /\ h.old_role /= h.new_role

\* RoleHistory.changed_department
changed_department_by_role(h) == h.old_role /= h.new_role

changed_department(h) ==
    IF h.old_role = None \/ h.new_role = None THEN FALSE
    ELSE Role_department(h.old_role) /= Role_department(h.new_role)

\* Employee.total_promotions: self.role_history.filter(
\*     new_seniority__in=['MID', 'SENIOR'], old_seniority__in=['JUNIOR', 'MID']).count()
total_promotions(e) ==
    Cardinality({i \in DOMAIN role_history :
                    /\ role_history[i].employee = e
                    /\ role_history[i].new_seniority \in {"MID", "SENIOR"}
                    /\ role_history[i].old_seniority \in {"JUNIOR", "MID"}})

\* RoleHistory.objects.create(employee=..., old_role=..., new_role=...,
\* old_seniority=..., new_seniority=..., changed_by=hr_user,
\* effective_date=date.today()): saved without full_clean(); the caller keeps
\* the returned object
RoleHistory_objects_create(e, old_role, new_role, old_seniority, new_seniority) ==
    /\ last = NoCall
    /\ Len(role_history) + Len(salary_history) < MaxHistory
    /\ role_history' =
          Insert(role_history,
                 [id |-> 0, employee |-> e, old_role |-> old_role,
                  new_role |-> new_role, old_seniority |-> old_seniority,
                  new_seniority |-> new_seniority, changed_by |-> hr_user,
                  change_reason |-> "", effective_date |-> Today])
    /\ history' = [history EXCEPT ![hr_user] = role_history'[Len(role_history')]]
    /\ UNCHANGED <<emp, salary_history, self, call, pc, commits, last, cache>>

\* a property of the record the caller holds is read
read_promotion_or_demotion ==
    /\ last = NoCall
    /\ "new_seniority" \in DOMAIN history[hr_user]
    /\ last' = [op |-> "promotion_or_demotion", record |-> history[hr_user],
                value |-> promotion_or_demotion(history[hr_user])]
    /\ UNCHANGED <<emp, salary_history, role_history, self, call, history, pc, commits,
                   cache>>

read_changed_department ==
    /\ last = NoCall
    /\ "new_seniority" \in DOMAIN history[hr_user]
    /\ last' = [op |-> "changed_department", record |-> history[hr_user],
                value |-> changed_department(history[hr_user])]
    /\ UNCHANGED <<emp, salary_history, role_history, self, call, history, pc, commits,
                   cache>>

read_is_lateral_move ==
    /\ last = NoCall
    /\ "new_seniority" \in DOMAIN history[hr_user]
    /\ last' = [op |-> "is_lateral_move", record |-> history[hr_user],
                value |-> is_lateral_move(history[hr_user])]
    /\ UNCHANGED <<emp, salary_history, role_history, self, call, history, pc, commits,
                   cache>>

\* employee.total_promotions is read
read_total_promotions(e) ==
    /\ last = NoCall
    /\ last' = [op |-> "total_promotions", employee |-> e,
                value |-> total_promotions(e)]
    /\ UNCHANGED <<emp, salary_history, role_history, self, call, history, pc, commits,
                   cache>>

\* ----------------------------------------- derived values of SalaryHistory
\* Percentages are Decimals rounded to two places; here a percentage is the
\* integer number of hundredths of a percent.

\* what reading a property gives: a value, or an exception
Returned(value) == [raises |-> None, value |-> value]
Raises(exception) == [raises |-> exception, value |-> 0]

\* round(x, 2) of a Decimal: to the nearest hundredth, ties to the even one;
\* x is n / d percent with d > 0, the result is in hundredths
round_2(n, d) ==
    LET q == (n * 100) \div d
        r == (n * 100) - q * d
    IN  IF 2 * r < d THEN q
        ELSE IF 2 * r > d THEN q + 1
        ELSE IF q % 2 = 0 THEN q ELSE q + 1

\* round(((new - old) / old) * 100, 2); a Decimal division by zero raises
Percentage(change, base) ==
    IF base = 0 THEN Raises("DivisionByZero")
    ELSE IF base > 0 THEN Returned(round_2(change * 100, base))
    ELSE Returned(round_2((0 - change) * 100, 0 - base))

\* SalaryHistory.change_percentage (the second test, `not self.old_salary`,
\* is the first one again for a number)
change_percentage_unguarded(h) == Percentage(h.new_salary - h.old_salary, h.old_salary)

change_percentage(h) ==
    IF h.old_salary = 0 THEN Returned(0)
    ELSE Percentage(h.new_salary - h.old_salary, h.old_salary)

\* self.salary_history.order_by('effective_date').first(): the rows of the
\* employee with the least effective_date; the order among rows of the same
\* date is left to the database, so any of them may be the first
first_history(e) ==
    {i \in DOMAIN salary_history :
        /\ salary_history[i].employee = e
        /\ \A j \in DOMAIN salary_history :
              salary_history[j].employee = e =>
                  salary_history[i].effective_date <= salary_history[j].effective_date}

\* Employee.salary_growth_percentage, first being the row first() returned,
\* NoHistory if there is none
salary_growth_percentage(obj, first) ==
    IF first = NoHistory THEN Returned(0)
    ELSE IF first.old_salary = 0 THEN Returned(0)
    ELSE Percentage(obj.current_salary - first.old_salary, first.old_salary)

\* the effective dates the records are created with
RecordDates == {Fixture.hire_date, Today}

\* SalaryHistory.objects.create(employee=..., old_salary=..., new_salary=...,
\* changed_by=hr_user, effective_date=...): saved without full_clean()
SalaryHistory_objects_create(e, old_salary, new_salary, effective_date) ==
    /\ last = NoCall
    /\ Len(role_history) + Len(salary_history) < MaxHistory
    /\ salary_history' =
          Insert(salary_history,
                 [id |-> 0, employee |-> e, old_salary |-> old_salary,
                  new_salary |-> new_salary, changed_by |-> hr_user,
                  change_reason |-> "", effective_date |-> effective_date])
    /\ history' = [history EXCEPT ![hr_user] = salary_history'[Len(salary_history')]]
    /\ UNCHANGED <<emp, role_history, self, call, pc, commits, last, cache>>

read_change_percentage ==
    /\ last = NoCall
    /\ "new_salary" \in DOMAIN history[hr_user]
    /\ last' = [op |-> "change_percentage", record |-> history[hr_user],
                value |-> change_percentage(history[hr_user])]
    /\ UNCHANGED <<emp, salary_history, role_history, self, call, history, pc, commits,
                   cache>>

\* employee.salary_growth_percentage is read on a fresh instance
read_salary_growth_percentage(e) ==
    /\ last = NoCall
    /\ \E first \in (IF first_history(e) = {} THEN {NoHistory}
                     ELSE {salary_history[i] : i \in first_history(e)}) :
          last' = [op |-> "salary_growth_percentage", employee |-> e,
                   first |-> first,
                   value |-> salary_growth_percentage(Instance(e), first)]
    /\ UNCHANGED <<emp, salary_history, role_history, self, call, history, pc, commits,
                   cache>>

NextRecords ==
    \/ \E e \in Employees, old_role \in OldRoles, new_role \in NewRoles,
          old_seniority \in SENIORITY_LEVELS, new_seniority \in SENIORITY_LEVELS :
          RoleHistory_objects_create(e, old_role, new_role, old_seniority,
                                     new_seniority)
    \/ read_promotion_or_demotion
    \/ read_changed_department
    \/ read_is_lateral_move
    \/ \E e \in Employees : read_total_promotions(e)
    \/ \E e \in Employees, old_salary \in Salaries, new_salary \in Salaries,
          effective_date \in RecordDates :
          SalaryHistory_objects_create(e, old_salary, new_salary, effective_date)
    \/ read_change_percentage
    \/ \E e \in Employees : read_salary_growth_percentage(e)
    \/ handle_result

SpecRecords == Init /\ [][NextRecords]_vars

\* ------------------------------------------------ queries over the history
\* Records of two employees, created directly with any effective date, and
\* Employee.get_salary_history read on one of them.

OtherEmployee == "e2"               \* salary_history.employee of another employee
HistoryEmployees == Employees \cup {OtherEmployee}

\* SalaryHistory.Meta.ordering = ['-effective_date', '-created_at']: row i comes
\* before row j; created_at (auto_now_add) grows with the id
Meta_ordering_by_created(i, j) == salary_history[i].id > salary_history[j].id

Meta_ordering(i, j) ==
    \/ salary_history[i].effective_date > salary_history[j].effective_date
    \/ /\ salary_history[i].effective_date = salary_history[j].effective_date
       /\ salary_history[i].id > salary_history[j].id

\* the rows of a queryset (a set of row indices) in the order of Meta.ordering
RECURSIVE QuerySet_list(_)
QuerySet_list(rows) ==
    IF rows = {} THEN <<>>
    ELSE LET i == CHOOSE i \in rows : \A j \in rows \ {i} : Meta_ordering(i, j)
         IN  <<salary_history[i]>> \o QuerySet_list(rows \ {i})

\* history.filter(effective_date__gte=start_date)
effective_date__gt(rows, start_date) ==
    {i \in rows : salary_history[i].effective_date > start_date}

effective_date__gte(rows, start_date) ==
    {i \in rows : salary_history[i].effective_date >= start_date}

\* history.filter(effective_date__lte=end_date)
effective_date__lte(rows, end_date) ==
    {i \in rows : salary_history[i].effective_date <= end_date}

\* Employee.get_salary_history(start_date=None, end_date=None), evaluated
get_salary_history(e, start_date, end_date) ==
    LET all == {i \in DOMAIN salary_history : salary_history[i].employee = e}
        from == IF start_date /= NoDate THEN effective_date__gte(all, start_date)
                ELSE all
        to == IF end_date /= NoDate THEN effective_date__lte(from, end_date)
              ELSE from
    IN  QuerySet_list(to)

read_get_salary_history(e, start_date, end_date) ==
    /\ last = NoCall
    /\ last' = [op |-> "get_salary_history", employee |-> e,
                start_date |-> start_date, end_date |-> end_date,
                value |-> get_salary_history(e, start_date, end_date)]
    /\ UNCHANGED <<emp, salary_history, role_history, self, call, history, pc, commits,
                   cache>>

NextQueries ==
    \/ \E e \in HistoryEmployees, effective_date \in Dates :
          SalaryHistory_objects_create(e, Fixture.current_salary,
                                       Fixture.current_salary + 1, effective_date)
    \/ \E e \in HistoryEmployees, start_date \in Dates \cup {NoDate},
          end_date \in Dates \cup {NoDate} :
          read_get_salary_history(e, start_date, end_date)
    \/ handle_result

SpecQueries == Init /\ [][NextQueries]_vars

\* ------------------------------------------------------------ dashboards
\* EmployeeDashboardService and DashboardRouter over a store of two teams that
\* does not change; Python values of different types are told apart by a tag.

NoEmployee == None                  \* employee=None, a user without a profile

\* Employee.manager of the employees of the two teams, and their seniority
TeamEmployees == {"lead1", "lead2", "m1", "m2", "m3"}

Employee_manager(e) ==
    IF e \in {"m1", "m2"} THEN "lead1" ELSE IF e = "m3" THEN "lead2" ELSE None

Employee_seniority_level(e) ==
    IF e = "m1" THEN "JUNIOR" ELSE IF e = "m2" THEN "MID" ELSE "SENIOR"

\* Employee.objects.filter(manager=employee) / employee.team_members
team_members(e) == {m \in TeamEmployees : Employee_manager(m) = e}

\* Employee.is_team_lead: self.team_members.exists()
is_team_lead(e) == team_members(e) /= {}

\* Python values
PyList(members) == [type |-> "list", value |-> members]
PyInt(n) == [type |-> "int", value |-> n]
PyDict(d) == [type |-> "dict", value |-> d]

\* `if cached_result:` for a value the cache returned
Truthy(v) ==
    IF v.type = "int" THEN v.value /= 0
    ELSE IF v.type = "list" THEN v.value /= {}
    ELSE TRUE

\* cache keys: f'team_members_{employee.id}' and 'team_stats'
team_members_key(e) == [name |-> "team_members", id |-> e]
team_stats_key(members) == [name |-> "team_stats", id |-> None]

\* cache.get(key) gives a truthy value
cache_hit(key) == key \in DOMAIN cache /\ Truthy(cache[key])

\* cache.set(key, value, timeout)
cache_set(key, value) ==
    [k \in DOMAIN cache \cup {key} |-> IF k = key THEN value ELSE cache[k]]

\* the value get_team_members stores: len(team_members_list)
team_members_cached(members) == PyInt(Cardinality(members))

\* EmployeeDashboardService.get_team_members(employee)
get_team_members(employee) ==
    /\ last = NoCall
    /\ IF employee = NoEmployee \/ ~is_team_lead(employee)
       THEN /\ last' = [op |-> "get_team_members", employee |-> employee,
                        cached |-> FALSE, value |-> PyList({})]
            /\ UNCHANGED cache
       ELSE IF cache_hit(team_members_key(employee))
       THEN /\ last' = [op |-> "get_team_members", employee |-> employee,
                        cached |-> TRUE,
                        value |-> cache[team_members_key(employee)]]
            /\ UNCHANGED cache
       ELSE /\ cache' = cache_set(team_members_key(employee),
                                  team_members_cached(team_members(employee)))
            /\ last' = [op |-> "get_team_members", employee |-> employee,
                        cached |-> FALSE,
                        value |-> PyList(team_members(employee))]
    /\ UNCHANGED <<emp, salary_history, role_history, self, call, history, pc, commits>>

\* the team_stats dictionary computed from team_members
team_stats(members) ==
    [total_members |-> Cardinality(members),
     junior_count |->
        Cardinality({m \in members : Employee_seniority_level(m) = "JUNIOR"}),
     mid_count |-> Cardinality({m \in members : Employee_seniority_level(m) = "MID"}),
     senior_count |->
        Cardinality({m \in members : Employee_seniority_level(m) = "SENIOR"})]

\* EmployeeDashboardService.get_team_stats(team_members)
get_team_stats(members) ==
    /\ last = NoCall
    /\ IF cache_hit(team_stats_key(members))
       THEN /\ last' = [op |-> "get_team_stats", team_members |-> members,
                        cached |-> TRUE,
                        value |-> cache[team_stats_key(members)].value]
            /\ UNCHANGED cache
       ELSE /\ cache' = cache_set(team_stats_key(members),
                                  PyDict(team_stats(members)))
            /\ last' = [op |-> "get_team_stats", team_members |-> members,
                        cached |-> FALSE, value |-> team_stats(members)]
    /\ UNCHANGED <<emp, salary_history, role_history, self, call, history, pc, commits>>

\* the timeout of a cache entry passes (600 seconds)
cache_timeout(key) ==
    /\ last = NoCall
    /\ key \in DOMAIN cache
    /\ cache' = [k \in DOMAIN cache \ {key} |-> cache[k]]
    /\ UNCHANGED <<emp, salary_history, role_history, self, call, history, pc, commits,
                   last>>

\* DashboardRouter.DASHBOARD_ROUTING
DASHBOARD_ROUTING ==
    [group \in {"Admin", "HR", "Team Lead"} |->
        IF group = "Admin" THEN "dashboards:admin_dashboard"
        ELSE IF group = "HR" THEN "dashboards:hr_dashboard"
        ELSE "dashboards:team_lead_dashboard"]

\* the groups of the site, and user.groups.values_list('name', flat=True): the
\* names of the user's groups in the order the database returns them (the query
\* has no ORDER BY)
Groups == DOMAIN DASHBOARD_ROUTING \cup {"Employee"}
GroupEnumerations ==
    {g \in UNION {[1..n -> Groups] : n \in 0..Cardinality(Groups)} :
        \A i, j \in DOMAIN g : i /= j => g[i] /= g[j]}

\* DashboardRouter.get_dashboard_url(user, employee=None)
get_dashboard_url(user, employee) ==
    LET routed == {i \in DOMAIN user.groups : user.groups[i] \in DOMAIN DASHBOARD_ROUTING}
    IN  IF user.is_superuser THEN Returned("dashboards:admin_dashboard")
        ELSE IF routed /= {}
            THEN LET first == CHOOSE i \in routed : \A j \in routed : i <= j
                 IN  Returned(DASHBOARD_ROUTING[user.groups[first]])
        ELSE IF employee = NoEmployee THEN Raises("AttributeError")
        ELSE IF is_team_lead(employee) THEN Returned("dashboards:team_lead_dashboard")
        ELSE Returned("dashboards:employee_dashboard")

read_get_dashboard_url(user, employee) ==
    /\ last = NoCall
    /\ last' = [op |-> "get_dashboard_url", user |-> user, employee |-> employee,
                value |-> get_dashboard_url(user, employee)]
    /\ UNCHANGED <<emp, salary_history, role_history, self, call, history, pc, commits,
                   cache>>

NextDashboards ==
    \/ \E employee \in TeamEmployees \cup {NoEmployee} : get_team_members(employee)
    \/ \E lead \in TeamEmployees : get_team_stats(team_members(lead))
    \/ \E key \in DOMAIN cache : cache_timeout(key)
    \/ \E is_superuser \in BOOLEAN, groups \in GroupEnumerations,
          employee \in {NoEmployee, "lead1", "m1"} :
          read_get_dashboard_url([is_superuser |-> is_superuser, groups |-> groups],
                                 employee)
    \/ handle_result

SpecDashboards == Init /\ [][NextDashboards]_vars

\* ------------------------------------------------- the salary-update view
\* POST requests to UpdateEmployeeSalaryView, whose dispatch is wrapped by
\* group_required('HR'), from the users of the view tests.

ViewUsers == {"anonymous", "regular_user", "hr_user", "admin"}
User_is_authenticated(user) == user /= "anonymous"
User_groups(user) == IF user = "hr_user" THEN {"HR"} ELSE {}
User_is_superuser(user) == user = "admin"

\* the reasons submitted, and len(reason)
ViewReasons == {"", "Raise", "Annual performance raise"}
len(reason) == IF reason = "" THEN 0 ELSE IF reason = "Raise" THEN 5 ELSE 24

\* decorator.py line 61 reads `group_names`; the parameter of group_required is
\* `group_name` and no other binding of the name exists: NameError
group_names_is_bound == FALSE

\* group_required(group_name) around a view, under login_required: what the
\* wrapper answers, "view" when it calls the view
group_required_login_only(user, group_name) ==
    IF ~User_is_authenticated(user) THEN "redirect:login" ELSE "view"

group_required(user, group_name) ==
    IF ~User_is_authenticated(user) THEN "redirect:login"
    ELSE IF ~group_names_is_bound THEN "redirect:login"  \* except Exception
    ELSE IF User_is_superuser(user) THEN "view"
    ELSE IF User_groups(user) \cap {group_name} = {} THEN "PermissionDenied"
    ELSE "view"

\* UpdateSalaryForm.is_valid(): the fields in error
UpdateSalaryForm_errors(employee, new_salary, effective_date, reason) ==
    LET current == employee.current_salary
        change == IF new_salary > current THEN new_salary - current
                  ELSE current - new_salary
    IN  (IF new_salary < 1 \/ new_salary = current THEN {"new_salary"} ELSE {})
        \cup
        (IF effective_date < employee.hire_date \/ effective_date < Today
            THEN {"effective_date"} ELSE {})
        \cup
        (IF reason = "" THEN {"reason"}
         ELSE IF /\ new_salary >= 1
                 /\ current > 0
                 /\ 100 * change > 30 * current
                 /\ len(reason) < 20
            THEN {"reason"}
         ELSE {})

\* POST to UpdateEmployeeSalaryView: the decorator, dispatch (the employee is
\* loaded), the form, form_valid calling employee.update_salary
UpdateEmployeeSalaryView_post(user, pk, new_salary, effective_date, reason) ==
    /\ last = NoCall
    /\ Len(salary_history) < MaxHistory
    /\ LET access == group_required(user, "HR")
           employee == Instance(pk)
           form_errors == UpdateSalaryForm_errors(employee, new_salary,
                                                  effective_date, reason)
           h == SalaryHistory(employee, new_salary, user, reason, effective_date)
           errors == SalaryHistory_full_clean(h, employee)
           request == [op |-> "UpdateEmployeeSalaryView", user |-> user, pk |-> pk,
                       new_salary |-> new_salary, effective_date |-> effective_date,
                       reason |-> reason, stored |-> emp[pk]]
       IN  IF access /= "view"
           THEN /\ last' = [response |-> access] @@ request
                /\ UNCHANGED <<emp, salary_history, commits>>
           ELSE IF form_errors /= {} \/ errors /= {}
           THEN /\ last' = [response |-> "form_invalid"] @@ request
                /\ UNCHANGED <<emp, salary_history, commits>>
           ELSE /\ salary_history' = Insert(salary_history, h)
                /\ emp' = [emp EXCEPT ![pk] =
                              Employee_save(emp[pk], SetSalary(employee, new_salary),
                                            {"current_salary"})]
                /\ commits' = Append(commits, [table |-> "salary",
                                               id |-> Len(salary_history')])
                /\ last' = [response |-> "redirect:dashboards:hr_dashboard"] @@ request
    /\ UNCHANGED <<role_history, self, call, history, pc, cache>>

NextViews ==
    \/ \E user \in ViewUsers, pk \in Employees, new_salary \in Salaries,
          effective_date \in Dates, reason \in ViewReasons :
          UpdateEmployeeSalaryView_post(user, pk, new_salary, effective_date, reason)
    \/ handle_result

SpecViews == Init /\ [][NextViews]_vars

\* ------------------------------------------------------------ properties

\* the effective date a call asked for
EffectiveDate(c) == IF c.effective_date = NoDate THEN Today ELSE c.effective_date

\* the rows a finished call added: those inserted after it began, by its user,
\* for its employee (a user runs one call at a time)
SalaryRowsOf(r) ==
    {i \in DOMAIN salary_history :
        /\ i > r.call.salary_rows
        /\ salary_history[i].changed_by = r.actor
        /\ salary_history[i].employee = r.before.pk}

RoleRowsOf(r) ==
    {i \in DOMAIN role_history :
        /\ i > r.call.role_rows
        /\ role_history[i].changed_by = r.actor
        /\ role_history[i].employee = r.before.pk}

Committed(table, i) == \E k \in DOMAIN commits : commits[k] = [table |-> table, id |-> i]

InSalaryCall(a) == pc[a] \in {"salary_save_history", "salary_save_employee"}

\* C1: every update_salary call that succeeds has added exactly one SalaryHistory
\* row for its employee, and when it returns the stored current_salary is the
\* requested new_salary.
C1_SuccessfulSalaryUpdate ==
    (last.op = "update_salary" /\ last.outcome = "ok") =>
        /\ Cardinality(SalaryRowsOf(last)) = 1
        /\ emp[last.before.pk].current_salary = last.call.value

\* a call succeeded while the other request inserted a row of its own
C1_Witness ==
    /\ last.op = "update_salary"
    /\ last.outcome = "ok"
    /\ Len(salary_history) > last.call.salary_rows + 1

\* C2: an update_salary call that fails, for whatever reason, has persisted no
\* SalaryHistory row and has left the stored current_salary as it was.
C2_FailedSalaryUpdatePersistsNothing ==
    (last.op = "update_salary" /\ last.outcome /= "ok") =>
        /\ SalaryRowsOf(last) = {}
        /\ emp[last.before.pk].current_salary = last.stored.current_salary

\* C3: update_salary and update_role are atomic: once no call is running, every
\* persisted history row has its employee update committed, and every committed
\* employee update has its history row.
C3_HistoryAndEmployeeCommitTogether ==
    (\A a \in Actors : pc[a] = "idle") =>
        /\ \A i \in DOMAIN salary_history : Committed("salary", i)
        /\ \A i \in DOMAIN role_history : Committed("role", i)
        /\ \A k \in DOMAIN commits :
              commits[k].id \in (IF commits[k].table = "salary"
                                 THEN DOMAIN salary_history ELSE DOMAIN role_history)

\* the new_salary of the most recently created row, or the creation-time salary
LatestSalary ==
    IF salary_history = <<>> THEN Fixture.current_salary
    ELSE salary_history[Len(salary_history)].new_salary

\* every update_salary that inserted a row has completed
AllSalaryUpdatesCompleted == \A i \in DOMAIN salary_history : Committed("salary", i)

\* the employee updates committed in the order the rows were created
CommitsInCreationOrder ==
    \A j, k \in DOMAIN commits : j < k => commits[j].id < commits[k].id

\* C4 as stated: after any sequence of completed update_salary operations,
\* sequential or interleaved, the stored current_salary is the new_salary of
\* the most recently created SalaryHistory row (the creation-time salary if none).
C4_StoredSalaryIsLatestHistory ==
    AllSalaryUpdatesCompleted =>
        \A e \in Employees : emp[e].current_salary = LatestSalary

\* C4 as amended: the same, for operations whose employee updates committed in
\* the order their history rows were created (any one-after-another sequence).
C4_StoredSalaryIsLatestHistoryInOrder ==
    (AllSalaryUpdatesCompleted /\ CommitsInCreationOrder) =>
        \A e \in Employees : emp[e].current_salary = LatestSalary

\* two completed updates, committed in creation order
C4_Witness ==
    /\ Len(salary_history) = 2
    /\ AllSalaryUpdatesCompleted
    /\ CommitsInCreationOrder
    /\ salary_history[2].old_salary = salary_history[1].new_salary

\* C5: concurrent update_salary operations each keep their own SalaryHistory row
\* (distinct rows, the returned record is the stored row), and the stored
\* current_salary is the new_salary of the operation whose employee update
\* committed last.
C5_LastCommittedWriteWins ==
    /\ \A j, k \in DOMAIN commits : j /= k => commits[j] /= commits[k]
    /\ \A k \in DOMAIN commits :
          /\ commits[k].id \in DOMAIN salary_history
          /\ salary_history[commits[k].id].id = commits[k].id
    /\ (last.op = "update_salary" /\ last.outcome = "ok") =>
          /\ last.history.id \in DOMAIN salary_history
          /\ salary_history[last.history.id] = last.history
    /\ commits /= <<>> =>
          LET row == salary_history[commits[Len(commits)].id]
          IN  emp[row.employee].current_salary = row.new_salary

\* two overlapping updates by different users: the first to insert committed last
C5_Witness ==
    /\ Len(commits) = 2
    /\ commits[1].id = 2
    /\ commits[2].id = 1
    /\ salary_history[1].changed_by /= salary_history[2].changed_by
    /\ salary_history[1].new_salary /= salary_history[2].new_salary
    /\ last.op = "update_salary"
    /\ last.outcome = "ok"

\* C6: update_salary with new_salary equal to the employee's current_salary never
\* passes validation: it raises ValidationError and adds no SalaryHistory row.
C6_SameSalaryRejected ==
    /\ \A a \in Actors : InSalaryCall(a) => call[a].value /= self[a].current_salary
    /\ (last.op = "update_salary" /\ last.call.value = last.before.current_salary) =>
          /\ last.outcome = "ValidationError"
          /\ SalaryRowsOf(last) = {}

\* a call rejected for this reason alone
C6_Witness ==
    /\ last.op = "update_salary"
    /\ last.call.value = last.before.current_salary
    /\ last.errors = {"same_salary"}

\* C7: update_salary with new_salary <= 0 (zero included) never passes
\* validation: it raises ValidationError, adds no row, leaves current_salary.
C7_NonPositiveSalaryRejected ==
    /\ \A a \in Actors : InSalaryCall(a) => call[a].value > 0
    /\ (last.op = "update_salary" /\ last.call.value <= 0) =>
          /\ last.outcome = "ValidationError"
          /\ SalaryRowsOf(last) = {}
          /\ emp[last.before.pk] = last.stored

\* C8: update_salary and update_role with an effective_date before the
\* employee's hire_date never pass validation: the call raises ValidationError
\* (for the date), adds no history row and leaves the employee unchanged.
C8_DateBeforeHireRejected ==
    /\ \A a \in Actors : pc[a] /= "idle" => history[a].effective_date >= self[a].hire_date
    /\ (last.op \in {"update_salary", "update_role"}
          /\ EffectiveDate(last.call) < last.before.hire_date) =>
          /\ last.outcome = "ValidationError"
          /\ "before_hire_date" \in last.errors
          /\ SalaryRowsOf(last) = {}
          /\ RoleRowsOf(last) = {}
          /\ emp[last.before.pk] = last.stored
          /\ self[last.actor] = last.before

\* an update_salary with a valid new salary, rejected for the date alone
C8_Witness ==
    /\ last.op = "update_salary"
    /\ EffectiveDate(last.call) < last.before.hire_date
    /\ last.call.value > 0
    /\ last.errors = {"before_hire_date"}

\* C9: the record a successful update_salary created and returned has old_salary
\* equal to the instance's current_salary before the call, and new_salary,
\* changed_by, change_reason and effective_date equal to the arguments.
C9_HistoryRecordsTheCall ==
    (last.op = "update_salary" /\ last.outcome = "ok") =>
        LET row == salary_history[last.history.id]
        IN  /\ row = last.history
            /\ row.employee = last.before.pk
            /\ row.old_salary = last.before.current_salary
            /\ row.new_salary = last.call.value
            /\ row.changed_by = last.call.changed_by
            /\ row.change_reason = last.call.reason
            /\ row.effective_date = EffectiveDate(last.call)

\* a successful call with a reason and an explicit date, made from an instance
\* whose current_salary was no longer the stored one
C9_Witness ==
    /\ last.op = "update_salary"
    /\ last.outcome = "ok"
    /\ last.call.reason /= ""
    /\ last.call.effective_date /= NoDate
    /\ last.before.current_salary /= last.stored.current_salary

\* the role and seniority a call asks for, unspecified ones defaulting to current
RequestedRole(r) ==
    IF r.call.value.new_role = None THEN r.before.role ELSE r.call.value.new_role

RequestedSeniority(r) ==
    IF r.call.value.new_seniority = None THEN r.before.seniority_level
    ELSE r.call.value.new_seniority

\* C10: update_role by a user, with a role and/or seniority that differs from
\* the employee's and a valid effective_date, succeeds: exactly one RoleHistory
\* row with the old and the requested values, and the stored role and
\* seniority_level become the requested ones.
C10_RoleUpdateSucceeds ==
    (/\ last.op = "update_role"
     /\ last.call.changed_by /= None
     /\ EffectiveDate(last.call) >= last.before.hire_date
     /\ \/ RequestedRole(last) /= last.before.role
        \/ RequestedSeniority(last) /= last.before.seniority_level) =>
        /\ last.outcome = "ok"
        /\ Cardinality(RoleRowsOf(last)) = 1
        /\ \A i \in RoleRowsOf(last) :
              /\ role_history[i].old_role = last.before.role
              /\ role_history[i].old_seniority = last.before.seniority_level
              /\ role_history[i].new_role = RequestedRole(last)
              /\ role_history[i].new_seniority = RequestedSeniority(last)
        /\ emp[last.before.pk].role = RequestedRole(last)
        /\ emp[last.before.pk].seniority_level = RequestedSeniority(last)

\* C11: update_role with only new_seniority given (different from the current
\* one) succeeds with a record whose old_role and new_role are both the current
\* role, old_seniority the previous seniority, new_seniority the requested one.
C11_SeniorityOnlyUpdate ==
    (/\ last.op = "update_role"
     /\ last.call.value.new_role = None
     /\ last.call.value.new_seniority \notin {None, last.before.seniority_level}
     /\ last.call.changed_by /= None
     /\ EffectiveDate(last.call) >= last.before.hire_date) =>
        /\ last.outcome = "ok"
        /\ \E i \in RoleRowsOf(last) :
              /\ role_history[i].old_role = last.before.role
              /\ role_history[i].new_role = last.before.role
              /\ role_history[i].old_seniority = last.before.seniority_level
              /\ role_history[i].new_seniority = last.call.value.new_seniority

InRoleCall(a) == pc[a] \in {"role_save_history", "role_save_employee"}

\* the call asks for the role and the seniority the instance already has
NoChangeRequested(value, obj) ==
    /\ value.new_role \in {None, obj.role}
    /\ value.new_seniority \in {None, obj.seniority_level}

\* C12: update_role asked for the current role and the current seniority,
\* explicitly or by leaving them out, never passes validation: the call fails,
\* adds no RoleHistory row and leaves role and seniority_level as they were.
C12_NoChangeRejected ==
    /\ \A a \in Actors : InRoleCall(a) => ~NoChangeRequested(call[a].value, self[a])
    /\ (last.op = "update_role" /\ NoChangeRequested(last.call.value, last.before)) =>
          /\ last.outcome /= "ok"
          /\ RoleRowsOf(last) = {}
          /\ emp[last.before.pk] = last.stored
          /\ self[last.actor] = last.before

\* a user's call naming the current role and the current seniority, with a
\* valid date, was rejected
C12_Witness ==
    /\ last.op = "update_role"
    /\ last.call.value.new_role = last.before.role
    /\ last.call.value.new_seniority = last.before.seniority_level
    /\ last.call.changed_by /= None
    /\ EffectiveDate(last.call) >= last.before.hire_date
    /\ last.outcome = "ValidationError"

\* new_role / new_seniority of the most recently created RoleHistory row, or the
\* creation-time values
LatestRole ==
    IF role_history = <<>>
    THEN [role |-> Fixture.role, seniority_level |-> Fixture.seniority_level]
    ELSE [role |-> role_history[Len(role_history)].new_role,
          seniority_level |-> role_history[Len(role_history)].new_seniority]

AllRoleUpdatesCompleted == \A i \in DOMAIN role_history : Committed("role", i)

C14_HistoryAppendOnly ==
    [][/\ \A i \in DOMAIN salary_history :
             i \in DOMAIN salary_history' /\ salary_history'[i] = salary_history[i]
       /\ \A i \in DOMAIN role_history :
             i \in DOMAIN role_history' /\ role_history'[i] = role_history[i]]_vars

\* a second update_salary ran to its end after the first row existed
C14_Witness ==
    /\ Len(salary_history) = 2
    /\ Committed("salary", 1)
    /\ Committed("salary", 2)
    /\ salary_history[1].changed_by /= salary_history[2].changed_by

\* the constraints of a SalaryHistory row
SalaryHistoryConstraints(h) ==
    /\ h.old_salary /= h.new_salary
    /\ h.old_salary >= 0
    /\ h.new_salary >= 0
    /\ h.effective_date >= emp[h.employee].hire_date

\* C15: every SalaryHistory row update_salary persists, and every record it is
\* about to persist, has old_salary /= new_salary, both salaries >= 0 and an
\* effective_date not before the employee's hire_date.
C15_PersistedSalaryHistoryIsValid ==
    /\ \A i \in DOMAIN salary_history : SalaryHistoryConstraints(salary_history[i])
    /\ \A a \in Actors :
          pc[a] = "salary_save_history" => SalaryHistoryConstraints(history[a])

\* rows at the edges of the constraints: a salary of zero, a change effective
\* on the hire date itself
C15_Witness ==
    \E i, j \in DOMAIN salary_history :
        /\ salary_history[i].new_salary = 0
        /\ salary_history[j].old_salary = 0
        /\ salary_history[j].effective_date = emp[salary_history[j].employee].hire_date

\* the rank of a seniority level: JUNIOR < MID < SENIOR
Rank(seniority) ==
    CASE seniority = "JUNIOR" -> 1 [] seniority = "MID" -> 2
      [] seniority = "SENIOR" -> 3

\* C16: for a RoleHistory with old and new seniority among JUNIOR < MID < SENIOR,
\* promotion_or_demotion is "promotion" iff the new rank is greater than the old,
\* "demotion" iff the old rank is greater than the new, None iff they are equal.
C16_PromotionOrDemotion ==
    last.op = "promotion_or_demotion" =>
        LET old == Rank(last.record.old_seniority)
            new == Rank(last.record.new_seniority)
        IN  /\ (last.value = "promotion") <=> (new > old)
            /\ (last.value = "demotion") <=> (old > new)
            /\ (last.value = None) <=> (old = new)

\* C18: changed_department is False whenever old_role or new_role is null, and
\* otherwise True exactly when the two roles' departments differ.
C18_ChangedDepartment ==
    last.op = "changed_department" =>
        LET h == last.record
        IN  /\ (h.old_role = None \/ h.new_role = None) => last.value = FALSE
            /\ (h.old_role /= None /\ h.new_role /= None) =>
                  (last.value = TRUE
                      <=> Role_department(h.old_role) /= Role_department(h.new_role))

\* read on a record that moved to another role of the same department
C18_Witness ==
    /\ last.op = "changed_department"
    /\ last.record.old_role /= None
    /\ last.record.new_role /= None
    /\ last.record.old_role /= last.record.new_role
    /\ last.value = FALSE

\* C19: total_promotions is the number of the employee's RoleHistory rows whose
\* new_seniority is MID or SENIOR and whose old_seniority is strictly lower;
\* rows with equal old and new seniority are not counted.
C19_TotalPromotions ==
    last.op = "total_promotions" =>
        last.value =
            Cardinality({i \in DOMAIN role_history :
                            /\ role_history[i].employee = last.employee
                            /\ role_history[i].new_seniority \in {"MID", "SENIOR"}
                            /\ Rank(role_history[i].old_seniority)
                                  < Rank(role_history[i].new_seniority)})

\* C17: percentages never fail on a zero denominator: change_percentage is 0 for
\* every record with old_salary = 0, and salary_growth_percentage is 0 when the
\* employee has no salary history or the earliest record has old_salary = 0.
C17_ZeroDenominator ==
    /\ (last.op = "change_percentage" /\ last.record.old_salary = 0) =>
          last.value = Returned(0)
    /\ (last.op = "salary_growth_percentage"
          /\ \A i \in first_history(last.employee) :
                salary_history[i].old_salary = 0) =>
          last.value = Returned(0)

\* change_percentage was read on a record that raised the salary from zero
C17_Witness ==
    /\ last.op = "change_percentage"
    /\ last.record.old_salary = 0
    /\ last.record.new_salary > 0

\* the first SalaryHistory row created for an employee
FirstCreated(e) ==
    salary_history[CHOOSE i \in DOMAIN salary_history :
                      /\ salary_history[i].employee = e
                      /\ \A j \in DOMAIN salary_history :
                            salary_history[j].employee = e => i <= j]

\* the rows were created with positive salaries and no two share an
\* effective_date, so that first() is determined
PositiveSalariesDistinctDates ==
    /\ \A i \in DOMAIN salary_history : salary_history[i].new_salary > 0
    /\ \A i, j \in DOMAIN salary_history :
          i /= j => salary_history[i].effective_date /= salary_history[j].effective_date

\* C20: after successful update_salary calls, salary_growth_percentage is the
\* growth of the stored salary over the salary before the first call (the
\* old_salary of the first row created), whatever effective dates were used.
\* Stated for calls with positive salaries and pairwise different dates.
C20_GrowthSinceFirstRecord ==
    (salary_history /= <<>> /\ AllSalaryUpdatesCompleted
        /\ PositiveSalariesDistinctDates) =>
        \A e \in Employees : \A i \in first_history(e) :
            salary_growth_percentage(Instance(e), salary_history[i])
                = Percentage(emp[e].current_salary - FirstCreated(e).old_salary,
                             FirstCreated(e).old_salary)

\* C28: for a role record whose role or seniority differs between old and new,
\* with seniorities among JUNIOR, MID and SENIOR, is_lateral_move is True
\* exactly when promotion_or_demotion is None.
C28_LateralIffNoPromotion ==
    last.op = "is_lateral_move" =>
        LET h == last.record
        IN  (/\ h.old_role /= h.new_role \/ h.old_seniority /= h.new_seniority
             /\ h.old_seniority \in SENIORITY_LEVELS
             /\ h.new_seniority \in SENIORITY_LEVELS)
            => (last.value <=> promotion_or_demotion(h) = None)

C28_Witness ==
    /\ last.op = "is_lateral_move"
    /\ last.value
    /\ last.record.old_role /= last.record.new_role
    /\ promotion_or_demotion(last.record) = None

\* C27: when update_salary operations on one employee run one after another,
\* the record a call inserts has as old_salary the creation-time salary if it
\* is the first record, and the new_salary of the record created just before
\* it otherwise. Stated for the calls made on an instance that holds the
\* stored salary (loaded or refreshed after the previous call ended).
C27_SalaryHistoryChain ==
    [][\A a \in Actors :
          (/\ pc[a] = "salary_save_history"
           /\ Len(salary_history') = Len(salary_history) + 1
           /\ self[a].current_salary = emp[self[a].pk].current_salary)
          => LET new == salary_history'[Len(salary_history')]
             IN  new.old_salary =
                    IF salary_history = <<>> THEN Fixture.current_salary
                    ELSE salary_history[Len(salary_history)].new_salary]_vars

\* C21: get_salary_history returns the employee's records newest-first by
\* effective_date (all of them when no date is given), whatever the order in
\* which they were created.
C21_NewestFirst ==
    last.op = "get_salary_history" =>
        /\ \A i, j \in DOMAIN last.value :
              i < j => last.value[i].effective_date >= last.value[j].effective_date
        /\ (last.start_date = NoDate /\ last.end_date = NoDate) =>
              {last.value[i] : i \in DOMAIN last.value} =
                  {salary_history[i] : i \in {k \in DOMAIN salary_history :
                      salary_history[k].employee = last.employee}}

\* a result whose first record was created before its second one
C21_Witness ==
    /\ last.op = "get_salary_history"
    /\ Len(last.value) >= 2
    /\ last.value[1].id < last.value[2].id
    /\ last.value[1].effective_date > last.value[2].effective_date

\* C22: get_salary_history(start_date, end_date) returns exactly the records of
\* that employee with start_date <= effective_date <= end_date, a missing bound
\* leaving its side open, each once, and changes no state.
C22_DateRangeOfEmployee ==
    [][(last = NoCall /\ last'.op = "get_salary_history") =>
          /\ {last'.value[i] : i \in DOMAIN last'.value} =
                {salary_history[i] : i \in {k \in DOMAIN salary_history :
                    /\ salary_history[k].employee = last'.employee
                    /\ last'.start_date /= NoDate =>
                          last'.start_date <= salary_history[k].effective_date
                    /\ last'.end_date /= NoDate =>
                          salary_history[k].effective_date <= last'.end_date}}
          /\ \A i, j \in DOMAIN last'.value :
                i /= j => last'.value[i] /= last'.value[j]
          /\ UNCHANGED <<emp, salary_history, role_history, self, cache>>]_vars

\* a record on the end bound is returned while another employee's record of
\* the same date is not
C22_Witness ==
    /\ last.op = "get_salary_history"
    /\ last.start_date /= NoDate
    /\ last.end_date /= NoDate
    /\ \E i \in DOMAIN last.value : last.value[i].effective_date = last.end_date
    /\ \E k \in DOMAIN salary_history :
          /\ salary_history[k].employee /= last.employee
          /\ salary_history[k].effective_date = last.end_date

\* the step is one of a call of request a to update_salary / update_role
SalaryStep(a) ==
    \/ pc[a] \in {"salary_save_history", "salary_save_employee"} /\ pc'[a] /= pc[a]
    \/ pc[a] = "idle" /\ pc'[a] = "salary_save_history"
    \/ last = NoCall /\ last'.op = "update_salary" /\ last'.actor = a

RoleStep(a) ==
    \/ pc[a] \in {"role_save_history", "role_save_employee"} /\ pc'[a] /= pc[a]
    \/ pc[a] = "idle" /\ pc'[a] = "role_save_history"
    \/ last = NoCall /\ last'.op = "update_role" /\ last'.actor = a

C23_RoutesByPriority ==
    (last.op = "get_dashboard_url" /\ last.employee /= NoEmployee) =>
        LET names == {last.user.groups[i] : i \in DOMAIN last.user.groups}
        IN  /\ last.value.raises = None
            /\ last.value.value =
                  IF last.user.is_superuser \/ "Admin" \in names
                      THEN "dashboards:admin_dashboard"
                  ELSE IF "HR" \in names THEN "dashboards:hr_dashboard"
                  ELSE IF "Team Lead" \in names \/ is_team_lead(last.employee)
                      THEN "dashboards:team_lead_dashboard"
                  ELSE "dashboards:employee_dashboard"

\* C29: for a team lead, get_team_members returns the list of the employees
\* whose manager the lead is, whether the call is served from the cache or
\* computed from the store.
C29_TeamMembersCacheTransparent ==
    (last.op = "get_team_members" /\ last.employee /= NoEmployee) =>
        (is_team_lead(last.employee) =>
            /\ last.value.type = "list"
            /\ last.value.value = team_members(last.employee))

\* C30: get_team_stats returns the counts computed from the team_members it is
\* given, never the statistics an earlier call cached for another team.
C30_TeamStatsOfGivenTeam ==
    last.op = "get_team_stats" => last.value = team_stats(last.team_members)

\* the request answered in this step was made by a user who may update salaries
MayUpdateSalary(user) ==
    User_is_authenticated(user) /\ (User_is_superuser(user) \/ "HR" \in User_groups(user))

\* a submission the form accepts: salary positive and not the stored one, date
\* neither before the hire date nor in the past, a reason of 20 characters
ValidSubmission(r) ==
    /\ r.new_salary > 0
    /\ r.new_salary /= r.stored.current_salary
    /\ r.effective_date >= r.stored.hire_date
    /\ r.effective_date >= Today
    /\ len(r.reason) >= 20

\* C24: a request to the salary-update view by a user who is not authenticated,
\* or is neither in the HR group nor a superuser, creates no SalaryHistory
\* record and changes no employee's current_salary.
C24_UnauthorizedRequestChangesNothing ==
    [][(/\ last = NoCall
        /\ last'.op = "UpdateEmployeeSalaryView"
        /\ ~MayUpdateSalary(last'.user))
       => /\ salary_history' = salary_history
          /\ \A e \in Employees : emp'[e].current_salary = emp[e].current_salary
      ]_vars

\* a valid submission by a logged-in user outside HR was answered with a redirect
C24_Witness ==
    /\ last.op = "UpdateEmployeeSalaryView"
    /\ last.user = "regular_user"
    /\ ValidSubmission(last)
    /\ last.response = "redirect:login"
    /\ emp[last.pk] = last.stored
    /\ salary_history = <<>>

\* C25: after a valid submission by a user in the HR group or a superuser the
\* employee's current_salary is the submitted value and one new SalaryHistory
\* record exists, of that employee, with that user as changed_by.
C25_ValidSubmissionUpdatesSalary ==
    [][(/\ last = NoCall
        /\ last'.op = "UpdateEmployeeSalaryView"
        /\ MayUpdateSalary(last'.user)
        /\ ValidSubmission(last'))
       => /\ emp'[last'.pk].current_salary = last'.new_salary
          /\ Len(salary_history') = Len(salary_history) + 1
          /\ salary_history'[Len(salary_history')].employee = last'.pk
          /\ salary_history'[Len(salary_history')].changed_by = last'.user
      ]_vars

====
